---- MODULE Spec2Model ----
(***************************************************************************)
(* Shift scheduling (shifts_scheduling.py): the MILP that Model builds     *)
(* from an hourly demand grid and a staff roster, the assignment a solver  *)
(* returns for it, and the decoding of that assignment into shifts and     *)
(* metrics.                                                                *)
(*                                                                         *)
(* Time stamps are whole hours counted from midnight of the first calendar *)
(* date, so the calendar date of dt is dt \div 24 and its hour dt % 24.     *)
(* Money is in cents.  The continuous variable x_ot in [0,1] is kept in    *)
(* units of 1/OtRes.                                                       *)
(***************************************************************************)
EXTENDS Integers, Sequences, FiniteSets, TLC

VARIABLES
    pc,         \* position in schedule_shifts: "new", "variables", "constraints",
                \* "solving", "done", "failed"
    demand,     \* demand_dict: time stamp -> required head count
    staff,      \* staff_df: staff index 0..M-1 -> row
    nvars,      \* number of decision variables declared so far
    x_start,    \* x_start[i][dt], value held by the solver
    x,          \* x[i][dt]
    x_ot,       \* x_ot[i][dt], in units of 1/OtRes
    x_day,      \* x_day[i][bus_day]
    y1,         \* y1[dt]
    y2,         \* y2[dt]
    cur,        \* the solver's search position: <<staff index, time stamp>> still to fix
    status,     \* what solver.Solve() returned
    error,      \* the exception schedule_shifts raised, "none" if none
    metrics     \* the dictionary solve returns

vars == <<pc, demand, staff, nvars, x_start, x, x_ot, x_day, y1, y2, cur, status, error, metrics>>

-----------------------------------------------------------------------------
(* config.py *)

MIN_STAFF_PER_HOUR == 2
MIN_REST_HOURS == 4
MIN_SHIFT_HOURS == 9
MAX_SHIFT_HOURS == 12
ROLE_OT_PROHIBITED == {"Branch Manager"}
MAX_DAYS_PER_WEEK == 6
MAX_SHIFTS_PER_DAY == 1
\* W1 = 0.75 as the fraction W1Num / W1Den
W1Num == 3
W1Den == 4

(* Bounds of the model *)

\* x_ot is continuous in [0,1]; the model lets it take the values k/OtRes.
OtRes == 2
\* The search raises a slack variable (x_ot, x_day, y1, y2) above the least
\* value the constraints leave it only on horizons of at most SlackHorizon
\* slots, and there in the last SlackSlots slots.
SlackHorizon == 24
SlackSlots == 1
\* On a horizon of more than LongHorizon slots the search tries shift starts
\* at midnight only, except in the first LongStartDays business days.
LongHorizon == 48
LongStartDays == 0

-----------------------------------------------------------------------------
(* Arithmetic helpers *)

Min(S) == CHOOSE m \in S : \A e \in S : m <= e
Max(S) == -Min({-e : e \in S})
Abs(n) == IF n < 0 THEN -n ELSE n

RECURSIVE Gcd(_, _)
Gcd(a, b) == IF b = 0 THEN a ELSE Gcd(b, a % b)

RECURSIVE LcmOf(_)
LcmOf(S) ==
    IF S = {} THEN 1
    ELSE LET e == CHOOSE e \in S : TRUE
             r == LcmOf(S \ {e})
         IN (r * e) \div Gcd(r, e)

\* sum(f[e] for e in S), added up value by value
RECURSIVE SumByValue(_, _, _)
SumByValue(f, S, V) ==
    IF V = {} THEN 0
    ELSE LET v == CHOOSE v \in V : TRUE
         IN v * Cardinality({e \in S : f[e] = v}) + SumByValue(f, S, V \ {v})
Sum(f, S) == SumByValue(f, S, {f[e] : e \in S})

\* round(n / d), d > 0, ties to the even neighbour as Python's round
RoundDiv(n, d) ==
    LET q == n \div d
        r == n % d
    IN IF 2 * r > d THEN q + 1
       ELSE IF 2 * r < d THEN q
       ELSE IF q % 2 = 0 THEN q ELSE q + 1
\* round(n / d, 4) in units of 1/10000
Round4(n, d) == RoundDiv(10000 * n, d)

\* The position (0-based) of e in the finite set S of integers taken in
\* increasing order, and the element at position k
Position(S, e) == Cardinality({d \in S : d < e})
Nth(S, k) == CHOOSE e \in S : Cardinality({d \in S : d < e}) = k

-----------------------------------------------------------------------------
(* Model.__init__ : the time grid *)

DTS == DOMAIN demand
M == Cardinality(DOMAIN staff)
Staff == DOMAIN staff

Hour(dt) == dt % 24
\* bus_day as a time stamp (midnight of the calendar date of dt)
BusDay(dt) == 24 * (dt \div 24)
BusDays == {BusDay(dt) : dt \in DTS}
\* week = (dt - min).days // 7 + 1
WeekFrom(first, dt) == (((dt - first) \div 24) \div 7) + 1
Week(dt) == WeekFrom(Min(DTS), dt)
Weeks == LET first == Min(DTS) IN {WeekFrom(first, dt) : dt \in DTS}

\* get_subset_dts(min_dt, max_dt)
get_subset_dts(min_dt, max_dt) == {d \in min_dt .. max_dt : d \in DTS}

-----------------------------------------------------------------------------
(* Model.add_variables : the variables' bounds *)

\* x_start[i][dt]: IntVar(0, 1), fixed to 0 when dt + MIN_SHIFT_HOURS falls on a
\* later calendar date than dt
StartUB(dt) == IF (dt + MIN_SHIFT_HOURS) \div 24 > dt \div 24 THEN 0 ELSE 1

\* the bound of x_ot without regard to the role
OtUB_any_role(i, dt) ==
    IF Hour(dt) < MIN_SHIFT_HOURS THEN 0 ELSE OtRes

\* x_ot[i][dt]: NumVar(0, 1), fixed to 0 for a prohibited role and before hour
\* MIN_SHIFT_HOURS
OtUB(i, dt) ==
    IF staff[i].role \in ROLE_OT_PROHIBITED \/ Hour(dt) < MIN_SHIFT_HOURS THEN 0 ELSE OtRes

\* y2[dt]: IntVar(0, max(0, demand - min(M, MIN_STAFF_PER_HOUR - 1)))
Y2UB(dt) == Max({0, demand[dt] - Min({M, MIN_STAFF_PER_HOUR - 1})})

\* The number of variables add_variables declares
NumVariables ==
    M * Cardinality(DTS) * 3
      + (IF M > 0 THEN 2 * Cardinality(DTS) ELSE 0)
      + M * Cardinality(BusDays)

-----------------------------------------------------------------------------
(* Model.add_constraints : the windows of the slot dt *)

bus_eod(dt) == BusDay(dt) + 23

\* past_dts without the clamp at the start of the business day
past_dts_unclamped(dt) ==
    get_subset_dts(dt - (MAX_SHIFT_HOURS - 1), dt)

past_dts(dt) ==
    get_subset_dts(Max({BusDay(dt), dt - (MAX_SHIFT_HOURS - 1)}), dt)

\* rest_dts one hour short
rest_dts_short(dt) ==
    get_subset_dts(dt + 1, dt + MIN_SHIFT_HOURS + MIN_REST_HOURS - 2)

rest_dts(dt) ==
    get_subset_dts(dt + 1, dt + MIN_SHIFT_HOURS + MIN_REST_HOURS - 1)

shift_dts(dt) ==
    get_subset_dts(dt, dt + MIN_SHIFT_HOURS - 1)

potential_overtime_dts(dt) ==
    LET last == Max(shift_dts(dt))
    IN get_subset_dts(last + 1,
                      Min({bus_eod(dt), last + MAX_SHIFT_HOURS - MIN_SHIFT_HOURS + 1}))

additional_rest_dts(dt) ==
    LET rest == rest_dts(dt)
    IN IF rest # {}
       THEN get_subset_dts(Max(rest) + 1, Max(rest) + MIN_REST_HOURS)
       ELSE {}

\* other_starts and day_dts: the slots of the business day of dt
day_dts(dt) == get_subset_dts(BusDay(dt), bus_eod(dt))

\* the business days of week w
week_days(w) ==
    LET first == Min(DTS) IN {BusDay(dt) : dt \in {d \in DTS : WeekFrom(first, d) = w}}

\* get_subset_dts asserts len(subset_dts) <= max_length
WindowAssertionsHold ==
    \A dt \in DTS :
        /\ Cardinality(past_dts(dt)) <= MAX_SHIFT_HOURS
        /\ Cardinality(rest_dts(dt)) <= MIN_SHIFT_HOURS + MIN_REST_HOURS - 1
        /\ Cardinality(shift_dts(dt)) <= MIN_SHIFT_HOURS
        /\ Cardinality(potential_overtime_dts(dt)) <= MAX_SHIFT_HOURS - MIN_SHIFT_HOURS + 1
        /\ Cardinality(additional_rest_dts(dt)) <= MIN_REST_HOURS

\* x[i][overtime_dt + Timedelta(hours=-1)] looks up a slot the grid may lack
ConstraintKeyError ==
    M > 0 /\ \E dt \in DTS : \E o \in potential_overtime_dts(dt) : o - 1 \notin DTS

-----------------------------------------------------------------------------------------------------------------------------------------------------
(* Model.add_constraints : the constraints.                                *)
(* Each constraint reads two assignments: L supplies the variables whose   *)
(* increase works against the constraint, H those whose increase works for *)
(* it.  L = H = the solver's assignment gives the constraint itself; the   *)
(* search passes the least and the greatest values still open to the       *)
(* variables it has not fixed.                                             *)

\* past{i}_{j}: x <= sum of x_start over the past MAX_SHIFT_HOURS of the day
Past(L, H, i, dt) ==
    L.x[i][dt] <= Sum(H.x_start[i], past_dts(dt))

\* rest{i}_{j}
Rest(L, H, i, dt) ==
    LET rest == rest_dts(dt)
    IN Sum(L.x_start[i], rest) <= Cardinality(rest) * (1 - L.x_start[i][dt])

\* min_shift{i}_{j}
MinShift(L, H, i, dt) ==
    LET shift == shift_dts(dt)
    IN Sum(H.x[i], shift) >= Cardinality(shift) * L.x_start[i][dt]

\* an overtime hour need not follow a worked hour
Consecutive_none(L, H, i, dt, overtime_dt) == TRUE

\* consecutive{i}_{j}_o{o}
Consecutive(L, H, i, dt, overtime_dt) ==
    1 + H.x[i][overtime_dt - 1] >= L.x_start[i][dt] + L.x[i][overtime_dt]

\* no overtime counted for an hour worked past the minimum shift
Overtime_none(L, H, i, dt, overtime_dt) == TRUE

\* ot{i}_{j}_o{o}
Overtime(L, H, i, dt, overtime_dt) ==
    OtRes + H.x_ot[i][overtime_dt] >= OtRes * (L.x_start[i][dt] + L.x[i][overtime_dt])

\* no rest demanded after an overtime hour
OvertimeRest_none(L, H, i, overtime_dt, rest_dt) == TRUE

\* rest{i}_{j}_o{o}: rest_dt = additional_rest_dts[o] for the o-th overtime_dt
OvertimeRest(L, H, i, overtime_dt, rest_dt) ==
    OtRes - L.x_ot[i][overtime_dt] >= OtRes * L.x_start[i][rest_dt]

\* the three constraints of the loop over potential_overtime_dts
OvertimeLoop(L, H, i, dt) ==
    LET pot == potential_overtime_dts(dt)
        add == additional_rest_dts(dt)
    IN \A overtime_dt \in pot :
          LET o == Position(pot, overtime_dt)
          IN /\ Consecutive(L, H, i, dt, overtime_dt)
             /\ Overtime(L, H, i, dt, overtime_dt)
             /\ Cardinality(add) >= o + 1 =>
                    OvertimeRest(L, H, i, overtime_dt, Nth(add, o))

\* max_per_day{i}_{j}
MaxPerDay(L, H, i, dt) ==
    Sum(L.x_start[i], day_dts(dt)) <= MAX_SHIFTS_PER_DAY

\* day_link{i}_{j}: added at the first slot of each business day, and only when
\* the horizon has more than MAX_DAYS_PER_WEEK business days
DayLinked(dt) ==
    /\ (dt - 1) \notin day_dts(dt)
    /\ Cardinality(BusDays) > MAX_DAYS_PER_WEEK

DayLink(L, H, i, dt) ==
    DayLinked(dt) =>
        LET day == day_dts(dt)
        IN Sum(L.x[i], day) <= Cardinality(day) * H.x_day[i][BusDay(dt)]

\* dc{j}: added once per slot
DemandCoverage(L, H, dt) ==
    Sum([s \in Staff |-> H.x[s][dt]], Staff) + H.y1[dt] + H.y2[dt] >= demand[dt]

\* the weekly limit applied only to weeks of more than MAX_DAYS_PER_WEEK + 1 days
MaxPerWeek_late(L, H, i, w) ==
    LET days == week_days(w)
    IN Cardinality(days) > MAX_DAYS_PER_WEEK + 1 =>
          Sum(L.x_day[i], days) <= MAX_DAYS_PER_WEEK

\* max_per_week{i}_{w}: only for a week of more than MAX_DAYS_PER_WEEK days
MaxPerWeek(L, H, i, w) ==
    LET days == week_days(w)
    IN Cardinality(days) > MAX_DAYS_PER_WEEK =>
          Sum(L.x_day[i], days) <= MAX_DAYS_PER_WEEK

\* the constraints add_constraints adds in the pass of staff i over slot dt
SlotConstraints(L, H, i, dt) ==
    /\ Past(L, H, i, dt)
    /\ Rest(L, H, i, dt)
    /\ MinShift(L, H, i, dt)
    /\ OvertimeLoop(L, H, i, dt)
    /\ MaxPerDay(L, H, i, dt)
    /\ DayLink(L, H, i, dt)
    /\ (i = M - 1 => DemandCoverage(L, H, dt))

\* every constraint of the model
AllConstraints(L, H) ==
    \A i \in Staff :
        /\ \A dt \in DTS : SlotConstraints(L, H, i, dt)
        /\ \A w \in Weeks : MaxPerWeek(L, H, i, w)

\* the variables' domains and bounds
WithinBounds(a) ==
    /\ \A i \in Staff : \A dt \in DTS :
          /\ a.x_start[i][dt] \in 0 .. StartUB(dt)
          /\ a.x[i][dt] \in 0 .. 1
          /\ a.x_ot[i][dt] \in 0 .. OtUB(i, dt)
    /\ \A i \in Staff : \A d \in BusDays : a.x_day[i][d] \in 0 .. 1
    /\ M > 0 => \A dt \in DTS : a.y1[dt] \in 0 .. 1 /\ a.y2[dt] \in 0 .. Y2UB(dt)

\* a satisfies the model
Satisfies(a) == WithinBounds(a) /\ AllConstraints(a, a)

\* The objective of schedule_shifts, multiplied by W1Den * OtRes * DemandLcm
DemandLcm == LcmOf({Abs(demand[dt]) : dt \in {d \in DTS : demand[d] # 0}})

\* every slot weighs the same, whatever its demand
PerDemand_flat(lcm, dt) == lcm

\* lcm / demand[dt]
PerDemand(lcm, dt) ==
    IF demand[dt] > 0 THEN lcm \div demand[dt] ELSE -(lcm \div (-demand[dt]))

Objective(a) ==
    LET lcm == DemandLcm
    IN Sum([dt \in DTS |->
               IF demand[dt] # 0
               THEN (W1Num * OtRes * (a.y1[dt] + 2 * a.y2[dt])
                       + (W1Den - W1Num) * Sum([i \in Staff |-> a.x_ot[i][dt]], Staff))
                    * PerDemand(lcm, dt)
               ELSE 0],
           DTS)

-----------------------------------------------------------------------------
(* The solver (pywraplp), an external collaborator.  Its search fixes      *)
(* x_start and x slot by slot, staff member by staff member, and discards  *)
(* a partial assignment as soon as a constraint can no longer be met.  It  *)
(* fixes the variables that only absorb slack (x_ot, x_day, y1, y2) at the *)
(* least value the constraints leave them; Loosen then raises one of them. *)

Assignment == [x_start |-> x_start, x |-> x, x_ot |-> x_ot, x_day |-> x_day, y1 |-> y1, y2 |-> y2]

Zeros ==
    [x_start |-> [i \in Staff |-> [dt \in DTS |-> 0]],
     x       |-> [i \in Staff |-> [dt \in DTS |-> 0]],
     x_ot    |-> [i \in Staff |-> [dt \in DTS |-> 0]],
     x_day   |-> [i \in Staff |-> [d \in BusDays |-> 0]],
     y1      |-> [dt \in DTS |-> 0],
     y2      |-> [dt \in DTS |-> 0]]

NoPos == <<-1, -1>>
FirstPos == IF M > 0 /\ DTS # {} THEN <<0, Min(DTS)>> ELSE NoPos
NextPos(c) ==
    IF c[2] # Max(DTS) THEN <<c[1], Min({d \in DTS : d > c[2]})>>
    ELSE IF c[1] # M - 1 THEN <<c[1] + 1, Min(DTS)>>
    ELSE NoPos

LastOfDay(dt) == (dt + 1) \notin day_dts(dt)

\* The greatest values still open to the variables of staff i once the search
\* has fixed the slots up to dt
Open(a, i, dt) ==
    [x_start |-> [a.x_start EXCEPT ![i] =
                    [d \in DTS |-> IF d <= dt THEN a.x_start[i][d] ELSE StartUB(d)]],
     x       |-> [a.x EXCEPT ![i] =
                    [d \in DTS |-> IF d <= dt THEN a.x[i][d] ELSE 1]],
     x_ot    |-> [a.x_ot EXCEPT ![i] =
                    [d \in DTS |-> IF d <= dt THEN a.x_ot[i][d] ELSE OtUB(i, d)]],
     x_day   |-> [a.x_day EXCEPT ![i] =
                    [d \in BusDays |-> IF \A e \in day_dts(d) : e <= dt
                                       THEN a.x_day[i][d] ELSE 1]],
     y1      |-> [d \in DTS |-> IF i = M - 1 /\ d <= dt THEN a.y1[d] ELSE 1],
     y2      |-> [d \in DTS |-> IF i = M - 1 /\ d <= dt THEN a.y2[d] ELSE Y2UB(d)]]

\* The least values the constraints leave to the slack variables of slot dt:
\* x_ot by the ot constraints of the slots whose overtime window holds dt,
\* x_day by day_link, y1 and y2 by dc (the pair of least cost y1 + 2 * y2)
OtValues(a, i, dt) ==
    {v \in 0 .. OtUB(i, dt) :
        LET b == [a EXCEPT !.x_ot[i][dt] = v]
        IN \A r \in past_dts(dt) :
              dt \in potential_overtime_dts(r) => Overtime(b, b, i, r, dt)}
DayValues(a, i, d) ==
    {v \in 0 .. 1 :
        LET b == [a EXCEPT !.x_day[i][d] = v]
        IN \A r \in day_dts(d) : DayLink(b, b, i, r)}
ShortfallValues(a, dt) ==
    {v \in (0 .. 1) \X (0 .. Y2UB(dt)) :
        LET b == [a EXCEPT !.y1[dt] = v[1], !.y2[dt] = v[2]]
        IN DemandCoverage(b, b, dt)}
LeastShortfall(V) == CHOOSE v \in V : \A u \in V : v[1] + 2 * v[2] <= u[1] + 2 * u[2]

\* a with its slack variables of slot dt of staff i at their least values;
\* Assigned(a, i, dt) is empty when the bounds leave no value
Assigned(a, i, dt) ==
    LET ots == OtValues(a, i, dt)
        a1 == [a EXCEPT !.x_ot[i][dt] = Min(ots)]
        days == DayValues(a1, i, BusDay(dt))
        a2 == IF LastOfDay(dt) THEN [a1 EXCEPT !.x_day[i][BusDay(dt)] = Min(days)] ELSE a1
        ys == ShortfallValues(a2, dt)
        y == LeastShortfall(ys)
        a3 == IF i = M - 1 THEN [a2 EXCEPT !.y1[dt] = y[1], !.y2[dt] = y[2]] ELSE a2
    IN IF ots = {} \/ (LastOfDay(dt) /\ days = {}) \/ (i = M - 1 /\ ys = {})
       THEN {}
       ELSE {a3}

\* no slack variable of a complete assignment is above its least value
Tight(a) ==
    \A i \in Staff : \A dt \in DTS :
        /\ a.x_ot[i][dt] = Min(OtValues(a, i, dt))
        /\ a.x_day[i][BusDay(dt)] = Min(DayValues(a, i, BusDay(dt)))
        /\ <<a.y1[dt], a.y2[dt]>> = LeastShortfall(ShortfallValues(a, dt))

\* the slots at which Loosen raises a slack variable: the last SlackSlots slots
\* of a horizon of at most SlackHorizon slots
SlackDts ==
    IF Cardinality(DTS) <= SlackHorizon
    THEN {dt \in DTS : Cardinality({d \in DTS : d > dt}) < SlackSlots}
    ELSE {}

\* the hours of the day at which the search tries a shift start
TriesStart(dt) ==
    Cardinality(DTS) > LongHorizon =>
        \/ Hour(dt) = 0
        \/ (BusDay(dt) - BusDay(Min(DTS))) \div 24 < LongStartDays

\* The constraints that fixing slot dt of staff i can break, each with the
\* variables the search has not fixed yet at the value that suits it best.
\* Only a slot with x_start = 1 can break its rest, min_shift, consecutive and
\* ot constraints.
Propagate(a, i, dt) ==
    LET h == Open(a, i, dt)
        vs == a.x_start[i][dt]
        vx == a.x[i][dt]
        before == get_subset_dts(dt - (MAX_SHIFT_HOURS + MIN_REST_HOURS + 1), dt)
        started == {r \in before : a.x_start[i][r] = 1}
    IN /\ vx = 1 => Past(a, h, i, dt)
       /\ vs = 1 => MaxPerDay(a, h, i, dt)
       /\ \A r \in started :
             /\ Rest(a, h, i, r)
             /\ MinShift(a, h, i, r)
             /\ \A odt \in potential_overtime_dts(r) :
                   odt <= dt => Consecutive(a, h, i, r, odt) /\ Overtime(a, h, i, r, odt)
       /\ vs = 1 => \A r \in before : OvertimeLoop(a, h, i, r)
       /\ (vx = 1 \/ LastOfDay(dt)) => \A r \in day_dts(dt) : DayLink(a, h, i, r)
       /\ (i = M - 1 => DemandCoverage(a, h, dt))
       /\ LastOfDay(dt) => \A w \in Weeks : MaxPerWeek(a, h, i, w)

-----------------------------------------------------------------------------
(* Model.solve : decoding *)

Solved == status \in {"OPTIMAL", "FEASIBLE"}

\* the slots the decoder scans for the shift that starts at dt
decoder_dts(dt) == get_subset_dts(dt, dt + MAX_SHIFT_HOURS - 1)
worked_dts(a, i, dt) == {d \in decoder_dts(dt) : a.x[i][d] = 1}

\* end_dt = max(worked slots of the window) + 1 hour
end_dt(a, i, dt) == Max(worked_dts(a, i, dt)) + 1

\* max() of an empty list
DecodeValueError(a) ==
    \E i \in Staff : \E dt \in DTS : a.x_start[i][dt] # 0 /\ worked_dts(a, i, dt) = {}

Rows(a) ==
    {[staff_id |-> staff[p[1]].staff_id, start_date_time |-> p[2],
      end_date_time |-> end_dt(a, p[1], p[2])] :
        p \in {q \in Staff \X DTS : a.x_start[q[1]][q[2]] # 0}}

\* total_cost, in cents times OtRes
TotalCost(a) ==
    Sum([i \in Staff |->
            Sum([dt \in DTS |->
                    LET pay == staff[i].hourly_wage * a.x[i][dt] * OtRes
                        ot_pay == staff[i].overtime_hourly_wage * a.x_ot[i][dt]
                    IN IF pay >= ot_pay THEN pay ELSE ot_pay],
                DTS)],
        Staff)

\* demand_coverage: a defaultdict that gets a key for every slot the loops visit
CoverageKeys == IF M > 0 THEN DTS ELSE {}
\* sum(demand_coverage.values()) times DemandLcm
CoverageSum(a) ==
    LET lcm == DemandLcm
    IN Sum([dt \in DTS |->
               IF demand[dt] # 0
               THEN Sum([i \in Staff |-> a.x[i][dt]], Staff) * PerDemand(lcm, dt)
               ELSE 0],
           CoverageKeys)

TotalSh(a) == Sum([i \in Staff |-> Sum(a.x[i], DTS)], Staff)
TotalOt(a) == Sum([i \in Staff |-> Sum(a.x_ot[i], DTS)], Staff)

SolverStatusText(st) == IF st = "OPTIMAL" THEN "optimal" ELSE "feasible"

\* the metrics dictionary; WDC and WOR in units of 1/10000, total_cost in cents
Metrics(a, st) ==
    LET ok == st \in {"OPTIMAL", "FEASIBLE"}
        total_sh == TotalSh(a)
    IN [WDC |-> IF ok /\ CoverageKeys # {}
                THEN Round4(CoverageSum(a), DemandLcm * Cardinality(CoverageKeys))
                ELSE 0,
        WOR |-> IF total_sh # 0
                THEN Round4(TotalOt(a), OtRes * total_sh)
                ELSE 0,
        total_cost |-> IF ok THEN RoundDiv(TotalCost(a), OtRes) ELSE 0,
        solver_status |-> SolverStatusText(st),
        shifts |-> IF ok THEN Rows(a) ELSE {}]

NoMetrics == [WDC |-> 0, WOR |-> 0, total_cost |-> 0, solver_status |-> "", shifts |-> {}]

-----------------------------------------------------------------------------
(* Inputs *)

Manager == [staff_id |-> 101, role |-> "Manager",
            hourly_wage |-> 963, overtime_hourly_wage |-> 1444]
BranchManager == [staff_id |-> 101, role |-> "Branch Manager",
            hourly_wage |-> 963, overtime_hourly_wage |-> 1444]
Teller == [staff_id |-> 102, role |-> "Teller",
            hourly_wage |-> 800, overtime_hourly_wage |-> 1200]
Roster(rows) == [i \in 0 .. (Len(rows) - 1) |-> rows[i + 1]]

\* n hourly slots from hour h0 of the first date, all with demand d
Flat(h0, n, d) == [dt \in h0 .. (h0 + n - 1) |-> d]
\* demand 3 before hour 10 and 2 from hour 10 on
Stepped(n) == [dt \in 0 .. (n - 1) |-> IF Hour(dt) < 10 THEN 3 ELSE 2]

Unset == [e \in {} |-> 0]

InitWith(inputs) ==
    /\ \E in \in inputs : demand = in.demand /\ staff = in.staff
    /\ pc = "new"
    /\ nvars = 0
    /\ x_start = Unset /\ x = Unset /\ x_ot = Unset /\ x_day = Unset
    /\ y1 = Unset /\ y2 = Unset
    /\ cur = NoPos
    /\ status = "NOT_SOLVED"
    /\ error = "none"
    /\ metrics = NoMetrics

-----------------------------------------------------------------------------
(* Model.schedule_shifts, step by step *)

\* self.add_variables(...)
AddVariables ==
    /\ pc = "new"
    /\ pc' = "variables"
    /\ nvars' = NumVariables
    /\ x_start' = Zeros.x_start /\ x' = Zeros.x /\ x_ot' = Zeros.x_ot
    /\ x_day' = Zeros.x_day /\ y1' = (IF M > 0 THEN Zeros.y1 ELSE Unset)
    /\ y2' = (IF M > 0 THEN Zeros.y2 ELSE Unset)
    /\ UNCHANGED <<demand, staff, cur, status, error, metrics>>

\* self.add_constraints(...)
AddConstraints ==
    /\ pc = "variables"
    /\ IF ConstraintKeyError
       THEN pc' = "failed" /\ error' = "KeyError"
       ELSE IF ~WindowAssertionsHold
       THEN pc' = "failed" /\ error' = "AssertionError"
       ELSE pc' = "constraints" /\ error' = error
    /\ UNCHANGED <<demand, staff, nvars, x_start, x, x_ot, x_day, y1, y2, cur, status, metrics>>

\* solver.Minimize(...): y1[dt] is looked up for every slot of nonzero demand
Minimize ==
    /\ pc = "constraints"
    /\ IF M = 0 /\ \E dt \in DTS : demand[dt] # 0
       THEN pc' = "failed" /\ error' = "KeyError" /\ cur' = cur
       ELSE pc' = "solving" /\ error' = error /\ cur' = FirstPos
    /\ UNCHANGED <<demand, staff, nvars, x_start, x, x_ot, x_day, y1, y2, status, metrics>>

\* One step of the solver's search: fix the variables of staff cur[1] at slot cur[2]
Branch ==
    /\ pc = "solving"
    /\ cur # NoPos
    /\ LET i == cur[1]
           dt == cur[2]
       IN \E vs \in 0 .. StartUB(dt), vx \in 0 .. 1 :
            /\ vs = 1 => TriesStart(dt)
            /\ \E a \in Assigned([Assignment EXCEPT !.x_start[i][dt] = vs,
                                                    !.x[i][dt] = vx], i, dt) :
                  /\ Propagate(a, i, dt) = TRUE
                  /\ x_start' = a.x_start /\ x' = a.x /\ x_ot' = a.x_ot
                  /\ x_day' = a.x_day /\ y1' = a.y1 /\ y2' = a.y2
    /\ cur' = NextPos(cur)
    /\ UNCHANGED <<pc, demand, staff, nvars, status, error, metrics>>

\* The search raises one slack variable of a complete assignment
Loosen ==
    /\ pc = "solving"
    /\ cur = NoPos
    /\ SlackDts # {}
    /\ Tight(Assignment) = TRUE
    /\ \/ \E i \in Staff, dt \in SlackDts : \E v \in 1 .. OtUB(i, dt) :
            /\ v > x_ot[i][dt]
            /\ x_ot' = [x_ot EXCEPT ![i][dt] = v]
            /\ UNCHANGED <<x_day, y1, y2>>
       \/ \E i \in Staff, dt \in SlackDts :
            /\ x_day[i][BusDay(dt)] = 0
            /\ x_day' = [x_day EXCEPT ![i][BusDay(dt)] = 1]
            /\ UNCHANGED <<x_ot, y1, y2>>
       \/ \E dt \in SlackDts : \E v \in ShortfallValues(Assignment, dt) :
            /\ v # <<y1[dt], y2[dt]>>
            /\ y1' = [y1 EXCEPT ![dt] = v[1]]
            /\ y2' = [y2 EXCEPT ![dt] = v[2]]
            /\ UNCHANGED <<x_ot, x_day>>
    /\ UNCHANGED <<pc, demand, staff, nvars, x_start, x, cur, status, error, metrics>>

\* solver.Solve() returns a solution, and solve decodes it
Solve ==
    /\ pc = "solving"
    /\ cur = NoPos
    /\ Satisfies(Assignment) = TRUE
    /\ \E st \in {"OPTIMAL", "FEASIBLE"} :
          /\ status' = st
          /\ IF DecodeValueError(Assignment)
             THEN pc' = "failed" /\ error' = "ValueError" /\ metrics' = metrics
             ELSE pc' = "done" /\ error' = error /\ metrics' = Metrics(Assignment, st)
    /\ UNCHANGED <<demand, staff, nvars, x_start, x, x_ot, x_day, y1, y2, cur>>

\* solver.Solve() returns without a solution: every solution_value() is 0
SolveFails ==
    /\ pc = "solving"
    /\ cur = FirstPos
    /\ \E st \in {"INFEASIBLE", "ABNORMAL", "NOT_SOLVED"} :
          /\ status' = st
          /\ metrics' = Metrics(Zeros, st)
    /\ pc' = "done"
    /\ cur' = NoPos
    /\ UNCHANGED <<demand, staff, nvars, x_start, x, x_ot, x_day, y1, y2, error>>

Next ==
    \/ AddVariables
    \/ AddConstraints
    \/ Minimize
    \/ Branch
    \/ Loosen
    \/ Solve
    \/ SolveFails

-----------------------------------------------------------------------------
(* Specifications *)

\* Horizons of at most one day: a whole day, a day cut short at 20:00, scenario A
\* of the tests, two staff members with hours of no demand, and the inputs
\* the time grid should refuse (a missing hour, a negative demand, no staff)
ShortInputs ==
    {[demand |-> Flat(0, 24, 3), staff |-> Roster(<<Manager>>)],
     [demand |-> Flat(0, 20, 3), staff |-> Roster(<<Manager>>)],
     [demand |-> Stepped(24), staff |-> Roster(<<BranchManager>>)],
     [demand |-> [dt \in 0 .. 11 |-> IF dt < 2 THEN 0 ELSE 2],
      staff |-> Roster(<<Manager, Teller>>)],
     [demand |-> [dt \in (0 .. 11) \ {2} |-> 3], staff |-> Roster(<<Manager>>)],
     [demand |-> [dt \in (6 .. 20) \ {17} |-> 3], staff |-> Roster(<<Manager>>)],
     [demand |-> [dt \in 0 .. 11 |-> IF dt = 2 THEN -1 ELSE 3], staff |-> Roster(<<Manager>>)],
     [demand |-> Flat(0, 12, 3), staff |-> Roster(<<>>)]}

Init == InitWith(ShortInputs)
Spec == Init /\ [][Next]_vars

\* Whole business days with demand 3, one overtime-eligible staff member
\* (scenarios B and C of the tests), a horizon that ends at noon and one that
\* starts at noon
DaysInputs ==
    {[demand |-> Flat(0, 24, 3), staff |-> Roster(<<Manager>>)],
     [demand |-> Flat(0, 48, 3), staff |-> Roster(<<Manager>>)],
     [demand |-> Flat(0, 36, 3), staff |-> Roster(<<Manager>>)],
     [demand |-> Flat(12, 36, 3), staff |-> Roster(<<Manager>>)]}

InitDays == InitWith(DaysInputs)
SpecDays == InitDays /\ [][Next]_vars

\* More than MAX_DAYS_PER_WEEK business days: a week from midnight, and a week
\* from noon, which touches eight business days; and one day, which has no
\* weekly limit
WeekInputs ==
    {[demand |-> Flat(0, 24, 3), staff |-> Roster(<<BranchManager>>)],
     [demand |-> Flat(0, 168, 3), staff |-> Roster(<<BranchManager>>)],
     [demand |-> Flat(12, 168, 3), staff |-> Roster(<<BranchManager>>)]}

InitWeek == InitWith(WeekInputs)
SpecWeek == InitWeek /\ [][Next]_vars

-----------------------------------------------------------------------------
(* Properties of the decoded schedule *)

\* solve has decoded a solution; the variables hold the assignment it decoded
Decoded == pc = "done" /\ Solved

ShiftsOf(i) == {r \in metrics.shifts : r.staff_id = staff[i].staff_id}
Duration(r) == r.end_date_time - r.start_date_time
Starts(i) == {dt \in DTS : x_start[i][dt] = 1}
Worked(i) == {dt \in DTS : x[i][dt] = 1}

\* the time stamps of the demand are one hour apart
HourlyGrid == DTS # {} /\ DTS = Min(DTS) .. Max(DTS)
\* the inputs the contract refuses
InvalidInput == ~HourlyGrid \/ (\E dt \in DTS : demand[dt] < 0) \/ M = 0

\* C1: on an hourly grid of any length every decoded shift lasts between
\* MIN_SHIFT_HOURS and MAX_SHIFT_HOURS hours
ShiftDurationInRange ==
    (Decoded /\ ~InvalidInput) =>
        \A r \in metrics.shifts :
            MIN_SHIFT_HOURS <= Duration(r) /\ Duration(r) <= MAX_SHIFT_HOURS

\* C2: two starts of one staff member are at least
\* MIN_SHIFT_HOURS + MIN_REST_HOURS hours apart
StartsApart ==
    Decoded =>
        \A i \in Staff : \A t1, t2 \in Starts(i) :
            t1 < t2 => t2 - t1 >= MIN_SHIFT_HOURS + MIN_REST_HOURS

\* two starts exactly 13 hours apart, the rest window of the later one cut
\* short by the end of the horizon
StartsApartTight ==
    /\ Decoded
    /\ \E i \in Staff : \E t1, t2 \in Starts(i) :
          /\ t2 - t1 = MIN_SHIFT_HOURS + MIN_REST_HOURS
          /\ t2 + MIN_SHIFT_HOURS + MIN_REST_HOURS - 1 > Max(DTS)

\* C3: a shift of a staff member starts at least MIN_REST_HOURS hours after the
\* decoded end of each earlier shift of that staff member
RestBetweenShifts ==
    Decoded =>
        \A i \in Staff : \A r1, r2 \in ShiftsOf(i) :
            r1.start_date_time < r2.start_date_time =>
                r2.start_date_time - r1.end_date_time >= MIN_REST_HOURS

\* a shift with three overtime hours, and the next shift on the next business
\* day exactly MIN_REST_HOURS hours after its end
RestAfterOvertimeTight ==
    /\ Decoded
    /\ \E i \in Staff : \E r1, r2 \in ShiftsOf(i) :
          /\ Duration(r1) = MAX_SHIFT_HOURS
          /\ \A dt \in (r1.start_date_time + MIN_SHIFT_HOURS) .. (r1.end_date_time - 1) :
                x_ot[i][dt] = OtRes
          /\ BusDay(r2.start_date_time) # BusDay(r1.start_date_time)
          /\ r2.start_date_time - r1.end_date_time = MIN_REST_HOURS

\* C4: no slot of a later business day inside the decoder window of a start is
\* worked, and every worked slot lies on a business day with a start
WorkWithinStartDay ==
    Decoded =>
        \A i \in Staff :
            /\ \A t \in Starts(i) : \A u \in decoder_dts(t) :
                  BusDay(u) > BusDay(t) => x[i][u] = 0
            /\ \A u \in Worked(i) : \E t \in day_dts(u) : x_start[i][t] = 1

\* a start whose decoder window reaches into the next business day, which is
\* worked too
WindowReachesWorkedDay ==
    /\ Decoded
    /\ \E i \in Staff : \E t \in Starts(i) :
          /\ \E u \in decoder_dts(t) : BusDay(u) > BusDay(t)
          /\ \E u \in Worked(i) : BusDay(u) = BusDay(t) + 24

\* the business days of week w on which staff i works
WorkedDays(i, w) == {BusDay(dt) : dt \in {d \in Worked(i) : Week(d) = w}}

\* C5: on a horizon of more than MAX_DAYS_PER_WEEK business days nobody works on
\* more than MAX_DAYS_PER_WEEK business days of a week, so that one staff
\* member gets at most MAX_DAYS_PER_WEEK shifts in a week of 168 hours
WorkedDaysPerWeek ==
    (Decoded /\ Cardinality(BusDays) > MAX_DAYS_PER_WEEK) =>
        /\ \A i \in Staff : \A w \in Weeks :
              Cardinality(WorkedDays(i, w)) <= MAX_DAYS_PER_WEEK
        /\ (M = 1 /\ Cardinality(DTS) = 168) =>
              Cardinality(metrics.shifts) <= MAX_DAYS_PER_WEEK

\* a week of more than MAX_DAYS_PER_WEEK business days with work on exactly
\* MAX_DAYS_PER_WEEK of them
SixDaysWorked ==
    /\ Decoded
    /\ Cardinality(BusDays) > MAX_DAYS_PER_WEEK
    /\ \E i \in Staff : \E w \in Weeks :
          Cardinality(WorkedDays(i, w)) = MAX_DAYS_PER_WEEK
    /\ Cardinality(metrics.shifts) = MAX_DAYS_PER_WEEK

\* C6: when the solver returns INFEASIBLE or ABNORMAL, solve returns zero
\* metrics and no shifts, and solver_status names the status the solver returned
FailureStatusRecorded ==
    (pc = "done" /\ status \in {"INFEASIBLE", "ABNORMAL"}) =>
        /\ metrics.WDC = 0 /\ metrics.WOR = 0 /\ metrics.total_cost = 0
        /\ metrics.shifts = {}
        /\ metrics.solver_status \notin {"optimal", "feasible"}

\* C7: an input the contract refuses fails with a DataError before any
\* variable is declared
InvalidInputRefused ==
    InvalidInput =>
        /\ nvars = 0
        /\ pc # "done"
        /\ pc = "failed" => error = "DataError"

\* the slots with a demand
DemandDts == {dt \in DTS : demand[dt] > 0}

\* C8: WDC is the average of worked staff / demand over the slots with a
\* demand; the slots without demand count neither in the sum nor in the divisor
CoverageOverDemandSlots ==
    (Decoded /\ ~InvalidInput) =>
        metrics.WDC =
            IF DemandDts = {}
            THEN 0
            ELSE LET lcm == DemandLcm
                 IN Round4(Sum([dt \in DTS |->
                                   Cardinality({i \in Staff : x[i][dt] = 1}) * (lcm \div demand[dt])],
                               DemandDts),
                           lcm * Cardinality(DemandDts))

\* Staff member 0 alone works len hours from hour t of every business day, the
\* hours past MIN_SHIFT_HOURS as overtime, and y1 and y2 take up the shortfall
DailyShifts(t, len) ==
    LET on(i, dt) == IF i = 0 /\ Hour(dt) \in t .. (t + len - 1) THEN 1 ELSE 0
        short(dt) == demand[dt] - on(0, dt)
    IN [x_start |-> [i \in Staff |-> [dt \in DTS |-> IF i = 0 /\ Hour(dt) = t THEN 1 ELSE 0]],
        x       |-> [i \in Staff |-> [dt \in DTS |-> on(i, dt)]],
        x_ot    |-> [i \in Staff |->
                        [dt \in DTS |->
                            IF on(i, dt) = 1 /\ Hour(dt) >= t + MIN_SHIFT_HOURS
                            THEN OtRes ELSE 0]],
        x_day   |-> [i \in Staff |-> [d \in BusDays |-> 0]],
        y1      |-> [dt \in DTS |-> IF short(dt) > 0 THEN 1 ELSE 0],
        y2      |-> [dt \in DTS |-> IF short(dt) > 1 THEN short(dt) - 1 ELSE 0]]

\* the overtime hours of a decoded shift of staff i, times OtRes
OvertimeOf(i, r) == Sum(x_ot[i], get_subset_dts(r.start_date_time, r.end_date_time - 1))

\* scenario A of the tests: an overtime-prohibited role, one day, demand 3
\* before 10:00 and 2 from 10:00
ScenarioA == demand = Stepped(24) /\ staff = Roster(<<BranchManager>>)
ReferenceA == DailyShifts(10, MIN_SHIFT_HOURS)

\* C9: in scenario A no assignment has a lower objective than a shift of
\* MIN_SHIFT_HOURS hours from 10:00, and every assignment of that objective
\* decodes to one shift of MIN_SHIFT_HOURS hours that starts at or after 10:00,
\* with WOR 0, WDC 0.1875 and a cost of MIN_SHIFT_HOURS hourly wages
ScenarioAOptimum ==
    (Decoded /\ ScenarioA) =>
        LET obj == Objective(Assignment)
            least == Objective(ReferenceA)
        IN /\ obj >= least
           /\ obj = least =>
                 /\ Cardinality(metrics.shifts) = 1
                 /\ \A r \in metrics.shifts :
                       /\ Duration(r) = MIN_SHIFT_HOURS
                       /\ Hour(r.start_date_time) >= 10
                 /\ metrics.WOR = 0
                 /\ metrics.WDC = 1875
                 /\ metrics.total_cost = MIN_SHIFT_HOURS * staff[0].hourly_wage

\* the solver returns an assignment of the least objective of scenario A
ScenarioASolved ==
    /\ Decoded /\ ScenarioA /\ status = "OPTIMAL"
    /\ Satisfies(ReferenceA)
    /\ Objective(Assignment) = Objective(ReferenceA)

\* scenarios B and C of the tests: an overtime-eligible role, demand 3 in every
\* slot of one or two whole business days
ScenarioBC ==
    /\ staff = Roster(<<Manager>>)
    /\ \E D \in 1 .. 2 : demand = Flat(0, 24 * D, 3)
ReferenceBC == DailyShifts(0, MAX_SHIFT_HOURS)

\* C10: in scenarios B and C no assignment has a lower objective than a shift
\* of MAX_SHIFT_HOURS hours on every business day, and every assignment of that
\* objective decodes to one shift per business day, each of MAX_SHIFT_HOURS
\* hours of which MAX_SHIFT_HOURS - MIN_SHIFT_HOURS are overtime, with
\* WOR = (MAX_SHIFT_HOURS - MIN_SHIFT_HOURS) / MAX_SHIFT_HOURS and a cost of
\* MIN_SHIFT_HOURS hourly wages and the overtime hours at the overtime wage per day
ScenarioBCOptimum ==
    (Decoded /\ ScenarioBC) =>
        LET obj == Objective(Assignment)
            least == Objective(ReferenceBC)
            D == Cardinality(BusDays)
            ot == MAX_SHIFT_HOURS - MIN_SHIFT_HOURS
        IN /\ obj >= least
           /\ obj = least =>
                 /\ Cardinality(metrics.shifts) = D
                 /\ \A d \in BusDays : \E r \in metrics.shifts : BusDay(r.start_date_time) = d
                 /\ \A r \in metrics.shifts :
                       /\ Duration(r) = MAX_SHIFT_HOURS
                       /\ OvertimeOf(0, r) = ot * OtRes
                 /\ TotalOt(Assignment) = D * ot * OtRes
                 /\ metrics.WOR = Round4(ot, MAX_SHIFT_HOURS)
                 /\ staff[0].overtime_hourly_wage >= staff[0].hourly_wage
                 /\ metrics.total_cost =
                       D * (MIN_SHIFT_HOURS * staff[0].hourly_wage
                            + ot * staff[0].overtime_hourly_wage)

\* the solver returns an assignment of the least objective over two days
ScenarioCSolved ==
    /\ Decoded /\ ScenarioBC /\ status = "OPTIMAL"
    /\ Cardinality(BusDays) = 2
    /\ Satisfies(ReferenceBC)
    /\ Objective(Assignment) = Objective(ReferenceBC)

\* the staff members whose role may not work overtime
Prohibited == {i \in Staff : staff[i].role \in ROLE_OT_PROHIBITED}

\* C11: a staff member of an overtime-prohibited role works no slot of the
\* potential-overtime window of a start, has no decoded shift longer than
\* MIN_SHIFT_HOURS hours, and has x_ot = 0 in every slot
NoOvertimeForProhibited ==
    Decoded =>
        \A i \in Prohibited :
            /\ \A t \in Starts(i) : \A o \in potential_overtime_dts(t) : x[i][o] = 0
            /\ \A r \in ShiftsOf(i) : Duration(r) <= MIN_SHIFT_HOURS
            /\ \A t \in DTS : x_ot[i][t] = 0

\* a shift of MIN_SHIFT_HOURS hours of a prohibited role with slots of the same
\* business day left after it
ProhibitedShiftBeforeFreeSlots ==
    /\ Decoded
    /\ \E i \in Prohibited : \E t \in Starts(i) :
          /\ Cardinality(potential_overtime_dts(t)) = MAX_SHIFT_HOURS - MIN_SHIFT_HOURS + 1
          /\ end_dt(Assignment, i, t) - t = MIN_SHIFT_HOURS

\* the slots of the decoded shift r, its end excluded
Interval(r) == get_subset_dts(r.start_date_time, r.end_date_time - 1)

\* one hour after the last slot of the run of worked slots of staff i that
\* begins at slot t
RunEnd(i, t) ==
    LET stop == {u \in DTS : u >= t /\ u \notin Worked(i)}
    IN 1 + (IF stop = {} THEN Max(DTS) ELSE Max({u \in DTS : u < Min(stop)}))

\* C12: the worked slots of a staff member are the disjoint union of the
\* intervals of the decoded shifts, and the end the decoder computes is the end
\* of the run of worked slots that begins at the start
WorkedIsUnionOfShifts ==
    Decoded =>
        \A i \in Staff :
            /\ Worked(i) = UNION {Interval(r) : r \in ShiftsOf(i)}
            /\ \A r1, r2 \in ShiftsOf(i) :
                  r1 # r2 => Interval(r1) \cap Interval(r2) = {}
            /\ \A r \in ShiftsOf(i) :
                  r.end_date_time = RunEnd(i, r.start_date_time)

\* two decoded shifts of one staff member, one with overtime hours and one
\* that stops before the end of its decoder window, with unworked slots around
TwoShiftsDecoded ==
    /\ Decoded
    /\ \E i \in Staff : \E r1, r2 \in ShiftsOf(i) :
          /\ r1.start_date_time < r2.start_date_time
          /\ Duration(r1) = MAX_SHIFT_HOURS
          /\ Duration(r2) = MIN_SHIFT_HOURS + 1
          /\ r2.end_date_time \in DTS \ Worked(i)
          /\ Worked(i) = Interval(r1) \cup Interval(r2)

====
